---- MODULE Spec2Model ----
(***************************************************************************)
(* A model of fuzzy_matcher.py: the memoized pairwise scorer               *)
(* FuzzyMatcher.get_fuzzy_distance (an lru_cache shared by every instance  *)
(* of the class), the constructor FuzzyMatcher.__init__ and the top-n      *)
(* selection of FuzzyMatcher.calculate_fuzzy_distance.                     *)
(*                                                                         *)
(* A Python str is a sequence of one-character strings.  A cell of a data  *)
(* frame is a record [kind, chars]: a str, or the float NaN pandas uses    *)
(* for a missing cell.  A score is an integer number of hundredths: the    *)
(* code rounds every score to two decimals.                                *)
(***************************************************************************)
EXTENDS Integers, Sequences, FiniteSets, TLC

\* ------------------------------------------------------------------ bounds
\* Largest number of rows of the base frame handed to the constructor.
MaxBase == 2
\* Largest number of rows of the comparator frame handed to the constructor.
MaxComp == 2
\* Largest top_n of a configuration (the smallest is -1).
MaxTopN == 2
\* Largest number of FuzzyMatcher instances constructed in one behaviour.
MaxInstances == 2
\* Capacity of the score cache: the model's stand-in for maxsize=100000.
CacheBound == 2

\* ------------------------------------------------------------- Python str
Min(a, b) == IF a <= b THEN a ELSE b
Max(a, b) == IF a >= b THEN a ELSE b

LowerLetters ==
    << "a","b","c","d","e","f","g","h","i","j","k","l","m",
       "n","o","p","q","r","s","t","u","v","w","x","y","z" >>
UpperLetters ==
    << "A","B","C","D","E","F","G","H","I","J","K","L","M",
       "N","O","P","Q","R","S","T","U","V","W","X","Y","Z" >>
Whitespace == {" ", "\t", "\n"}

\* A str cell and the float NaN cell.
StrCell(chars) == [kind |-> "str", chars |-> chars]
NaNCell == [kind |-> "float", chars |-> <<>>]

\* str(x): a str is itself, the float NaN prints as nan.
Str(x) == IF x.kind = "float" THEN <<"n", "a", "n">> ELSE x.chars

\* str.strip(): drop the leading and the trailing whitespace.
RECURSIVE LStrip(_)
LStrip(s) ==
    IF s # <<>> /\ Head(s) \in Whitespace THEN LStrip(Tail(s)) ELSE s
RECURSIVE RStrip(_)
RStrip(s) ==
    IF s # <<>> /\ s[Len(s)] \in Whitespace
    THEN RStrip(SubSeq(s, 1, Len(s) - 1))
    ELSE s
Strip(s) == RStrip(LStrip(s))

\* str.upper() on the ASCII letters.
UpperChar(c) ==
    IF \E i \in 1..26 : LowerLetters[i] = c
    THEN UpperLetters[CHOOSE i \in 1..26 : LowerLetters[i] = c]
    ELSE c
Upper(s) == [i \in 1..Len(s) |-> UpperChar(s[i])]

\* Lines 88-89: str(x).strip().upper().
Normalize(x) == Upper(Strip(Str(x)))

\* IsSentinel with the NAN comparison left out.
IsSentinelWithoutNan(s) ==
    \/ s = <<"U", "N", "K", "N", "O", "W", "N">>
    \/ s = <<"-">>
    \/ s = <<>>

\* Lines 91 and 94: the values that stand for a missing text.
IsSentinel(s) ==
    \/ s = <<"U", "N", "K", "N", "O", "W", "N">>
    \/ s = <<"-">>
    \/ s = <<"N", "A", "N">>
    \/ s = <<>>

\* ---------------------------------------------------------------- metrics
\* round(x, 2) of x = n / d, in hundredths (ties to the even hundredth).
Round2(n, d) ==
    LET q == (100 * n) \div d
        r == (100 * n) % d
    IN  IF 2 * r > d THEN q + 1
        ELSE IF 2 * r = d THEN q + (q % 2)
        ELSE q

\* Length of a longest common subsequence of a and b.
RECURSIVE LCS(_, _)
LCS(a, b) ==
    IF a = <<>> \/ b = <<>> THEN 0
    ELSE IF Head(a) = Head(b) THEN 1 + LCS(Tail(a), Tail(b))
    ELSE Max(LCS(Tail(a), b), LCS(a, Tail(b)))

\* rapidfuzz fuzz.ratio / 100 as the fraction <<n, d>>: the normalized
\* indel similarity 2 * LCS / (len(a) + len(b)).
Ratio(a, b) ==
    IF Len(a) + Len(b) = 0 THEN <<1, 1>>
    ELSE <<2 * LCS(a, b), Len(a) + Len(b)>>

\* Whether the fraction x is smaller than the fraction y.
FracLess(x, y) == x[1] * y[2] < y[1] * x[2]

\* rapidfuzz fuzz.partial_ratio / 100 as a fraction: the best ratio of the
\* shorter string against a window of its length in the longer string.
PartialRatio(a, b) ==
    LET short == IF Len(a) <= Len(b) THEN a ELSE b
        long == IF Len(a) <= Len(b) THEN b ELSE a
        windows == { SubSeq(long, i, i + Len(short) - 1) :
                        i \in 1..(Len(long) - Len(short) + 1) }
        ratios == { Ratio(short, w) : w \in windows }
    IN  CHOOSE x \in ratios : \A y \in ratios : ~FracLess(x, y)

\* The smallest element of the non-empty set of integers S.
MinOf(S) == CHOOSE x \in S : \A y \in S : x <= y

\* The elements of the set of integers S in increasing order.
RECURSIVE SortedSeq(_)
SortedSeq(S) ==
    IF S = {} THEN <<>> ELSE <<MinOf(S)>> \o SortedSeq(S \ {MinOf(S)})

\* textdistance jaro_winkler, the matching pass: the positions of s2 that
\* the character at position i of s1 may take (unflagged, equal, inside
\* the search range).
JaroCandidates(s1, s2, range, i, flagged) ==
    { j \in Max(1, i - range)..Min(i + range, Len(s2)) :
        j \notin flagged /\ s2[j] = s1[i] }

\* Walking s1 from position i, each character takes the first candidate.
\* The result is the sequence of matched pairs <<i, j>>.
RECURSIVE JaroMatches(_, _, _, _, _)
JaroMatches(s1, s2, range, i, flagged) ==
    IF i > Len(s1) THEN <<>>
    ELSE LET cand == JaroCandidates(s1, s2, range, i, flagged)
         IN  IF cand = {}
             THEN JaroMatches(s1, s2, range, i + 1, flagged)
             ELSE <<<<i, MinOf(cand)>>>> \o
                  JaroMatches(s1, s2, range, i + 1,
                              flagged \cup {MinOf(cand)})

\* Half-transpositions: the k-th matched character of s1 against the k-th
\* flagged character of s2.
JaroTranspositions(s1, s2, pairs) ==
    LET js == SortedSeq({ pairs[h][2] : h \in 1..Len(pairs) })
    IN  Cardinality({ k \in 1..Len(pairs) :
                        s1[pairs[k][1]] # s2[js[k]] }) \div 2

\* Length of the common prefix of s1 and s2, at most 4.
JaroPrefix(s1, s2) ==
    Cardinality({ k \in 1..Min(Min(Len(s1), Len(s2)), 4) :
                    \A h \in 1..k : s1[h] = s2[h] })

\* The Jaro weight n / d of c matches with t transpositions, and Winkler's
\* boost for a weight above 0.7.
JaroWeight(l1, l2, c, t, prefix) ==
    LET n == c * c * (l1 + l2) + (c - t) * l1 * l2
        d == 3 * l1 * l2 * c
    IN  IF c = 0 THEN <<0, 1>>
        ELSE IF 10 * n <= 7 * d THEN <<n, d>>
        ELSE <<10 * n + prefix * (d - n), 10 * d>>

\* textdistance jaro_winkler.similarity as the fraction <<n, d>>.
JaroWinkler(s1, s2) ==
    LET range == Max(0, (Max(Len(s1), Len(s2)) \div 2) - 1)
        pairs == JaroMatches(s1, s2, range, 1, {})
    IN  IF Len(s1) = 0 \/ Len(s2) = 0 THEN <<0, 1>>
        ELSE JaroWeight(Len(s1), Len(s2), Len(pairs),
                        JaroTranspositions(s1, s2, pairs),
                        JaroPrefix(s1, s2))

SupportedMetrics == {"jaro-winkler", "lev-partial", "lev-ratio"}
Metrics == SupportedMetrics \cup {"unknown-metric"}
\* Line 73: the default of the metric parameter, which is none of the names
\* lines 97-102 compare with.
DefaultMetric == "jarowinkler"

\* What a call gives: a score in hundredths, or the NotImplementedError.
Returned(v) == [ok |-> TRUE, value |-> v]
Raised == [ok |-> FALSE, value |-> 0]

\* Lines 88-105: the body of get_fuzzy_distance, without the cache.
GetFuzzyDistanceBody(string_1, string_2, metric) ==
    LET s1 == Normalize(string_1)
        s2 == Normalize(string_2)
    IN  IF IsSentinel(s1) THEN Returned(0)
        ELSE IF IsSentinel(s2) THEN Returned(0)
        ELSE IF metric = "jaro-winkler"
             THEN LET x == JaroWinkler(s1, s2) IN Returned(Round2(x[1], x[2]))
        ELSE IF metric = "lev-partial"
             THEN LET x == PartialRatio(s1, s2) IN Returned(Round2(x[1], x[2]))
        ELSE IF metric = "lev-ratio"
             THEN LET x == Ratio(s1, s2) IN Returned(Round2(x[1], x[2]))
        ELSE Raised

\* ------------------------------------------------------------------ state
VARIABLES
    config,       \* the config dict handed to __init__
    pc,           \* where the instance stands: new, constructed, matching,
                  \* done, raised
    self,         \* the attributes __init__ sets (lines 49-64)
    output_list,  \* line 115: one flat [id, text, score, ...] list per base row
    result_df,    \* lines 157-169: the frame calculate_fuzzy_distance builds
    error,        \* the exception that ended the run, or none
    cache,        \* the lru_cache of get_fuzzy_distance, oldest entry first
    instances,    \* how many FuzzyMatcher objects were constructed
    last          \* the last constructor or get_fuzzy_distance call

vars == <<config, pc, self, output_list, result_df, error, cache, instances, last>>

\* ------------------------------------------------------------ score cache
\* CacheKey built from the normalized strings instead of the arguments.
CacheKeyNormalized(obj, string_1, string_2, metric) ==
    [self |-> obj, string_1 |-> StrCell(Normalize(string_1)),
     string_2 |-> StrCell(Normalize(string_2)), metric |-> metric]

\* Line 69: lru_cache builds its key from the arguments as passed (the
\* instance and the raw strings), before the body normalizes them.  Every
\* call passes its arguments as line 126 does, by keyword.
CacheKey(obj, string_1, string_2, metric) ==
    [self |-> obj, string_1 |-> string_1, string_2 |-> string_2,
     metric |-> metric]

CacheKeys(c) == { c[i].key : i \in 1..Len(c) }

\* The cache without the entry of key k.
RECURSIVE CacheWithout(_, _)
CacheWithout(c, k) ==
    IF c = <<>> THEN <<>>
    ELSE IF Head(c).key = k THEN CacheWithout(Tail(c), k)
    ELSE <<Head(c)>> \o CacheWithout(Tail(c), k)

\* CacheInsert reusing the evicted entry's slot without storing the result.
CacheInsertStale(c, k, v) ==
    IF Len(c) >= CacheBound
    THEN Append(Tail(c), [key |-> k, result |-> Head(c).result])
    ELSE Append(c, [key |-> k, result |-> v])

\* lru_cache, a miss that returned v: the new entry is the most recent one
\* and, the cache being full, the least recently used entry leaves.
CacheInsert(c, k, v) ==
    IF Len(c) >= CacheBound
    THEN Append(Tail(c), [key |-> k, result |-> v])
    ELSE Append(c, [key |-> k, result |-> v])

\* Lines 69-105: get_fuzzy_distance through its lru_cache.  A hit returns
\* the stored result and makes the entry the most recent one; a miss runs
\* the body and stores what it returns; an exception stores nothing.
GetFuzzyDistance(c, obj, string_1, string_2, metric) ==
    LET k == CacheKey(obj, string_1, string_2, metric)
    IN  IF k \in CacheKeys(c)
        THEN LET e == c[CHOOSE i \in 1..Len(c) : c[i].key = k]
             IN  [cache |-> Append(CacheWithout(c, k), e),
                  hit |-> TRUE, result |-> e.result]
        ELSE LET r == GetFuzzyDistanceBody(string_1, string_2, metric)
             IN  [cache |-> IF r.ok THEN CacheInsert(c, k, r) ELSE c,
                  hit |-> FALSE, result |-> r]

\* CacheClear that clears nothing.
CacheClearSkipped(c) == c

\* Line 67: cache_clear() empties the one cache every instance shares.
CacheClear(c) == <<>>

\* ------------------------------------------------------------ constructor
\* DataFrame.drop_duplicates().reset_index(drop=True): the first of equal
\* rows stays, in the order of the frame.
RECURSIVE DropDuplicates(_)
DropDuplicates(rows) ==
    IF rows = <<>> THEN <<>>
    ELSE LET init == DropDuplicates(SubSeq(rows, 1, Len(rows) - 1))
             r == rows[Len(rows)]
         IN  IF \E i \in 1..Len(init) : init[i] = r THEN init
             ELSE Append(init, r)

NoSelf == [base_data |-> <<>>, comparator_data |-> <<>>, top_n |-> 0,
           metric |-> ""]
NoCall == [op |-> "none", self |-> 0, string_1 |-> NaNCell,
           string_2 |-> NaNCell, metric |-> "", hit |-> FALSE,
           result |-> Raised, before |-> 0]

\* Lines 47-67: __init__ copies the configuration, drops duplicate rows and
\* clears the cache.  Neither top_n nor metric is looked at.
Construct ==
    /\ pc \in {"new", "constructed"}
    /\ instances < MaxInstances
    /\ self' = [base_data |-> DropDuplicates(config.base),
                comparator_data |-> DropDuplicates(config.comparator),
                top_n |-> config.top_n,
                metric |-> config.metric]
    /\ cache' = CacheClear(cache)
    /\ instances' = instances + 1
    /\ pc' = "constructed"
    /\ last' = [NoCall EXCEPT !.op = "__init__", !.self = instances + 1,
                              !.before = Len(cache)]
    /\ UNCHANGED <<config, output_list, result_df, error>>

\* A call of get_fuzzy_distance on a constructed instance.
Call(obj, string_1, string_2, metric) ==
    LET got == GetFuzzyDistance(cache, obj, string_1, string_2, metric)
    IN  /\ cache' = got.cache
        /\ last' = [op |-> "get_fuzzy_distance", self |-> obj,
                    string_1 |-> string_1, string_2 |-> string_2,
                    metric |-> metric, hit |-> got.hit,
                    result |-> got.result, before |-> Len(cache)]
        /\ UNCHANGED <<config, pc, self, output_list, result_df, error,
                       instances>>

\* ----------------------------------------------- calculate_fuzzy_distance
\* Lines 125-131: the inner loop scores one base text against the
\* comparator texts in their order, every call through the cache, and stops
\* at the first call that raises.
RECURSIVE ScoreLoop(_, _, _, _, _, _)
ScoreLoop(c, obj, string_1, comparator, metric, score_list) ==
    IF Len(score_list) = Len(comparator)
    THEN [cache |-> c, score_list |-> score_list, raised |-> FALSE]
    ELSE LET string_2 == comparator[Len(score_list) + 1].text
             got == GetFuzzyDistance(c, obj, string_1, string_2, metric)
         IN  IF got.result.ok
             THEN ScoreLoop(got.cache, obj, string_1, comparator, metric,
                            Append(score_list, got.result.value))
             ELSE [cache |-> got.cache, score_list |-> score_list,
                   raised |-> TRUE]

\* np.argsort(score_list): the default kind is quicksort, which is not
\* stable, so every index order that sorts the scores ascending is a
\* result a build of numpy can give.
ArgSort(score_list) ==
    LET n == Len(score_list)
    IN  { p \in [1..n -> 1..n] :
            /\ \A i, j \in 1..n : i # j => p[i] # p[j]
            /\ \A i, j \in 1..n :
                 i < j => score_list[p[i]] <= score_list[p[j]] }

\* s[::-1]
Reverse(s) == [i \in 1..Len(s) |-> s[Len(s) + 1 - i]]

\* s[:n], for n of either sign.
SliceTo(s, n) ==
    IF n >= 0 THEN SubSeq(s, 1, Min(n, Len(s)))
    ELSE SubSeq(s, 1, Max(Len(s) + n, 0))

\* TopNIdx without the reversal: the top_n lowest scores.
TopNIdxAscending(order, top_n) == SliceTo(order, top_n)

\* TopNIdx one entry short.
TopNIdxShort(order, top_n) == SliceTo(Reverse(order), top_n - 1)

\* Line 134: the indices of the top_n best scores, best first.
TopNIdx(order, top_n) == SliceTo(Reverse(order), top_n)

\* Lines 142-151: the flat list id, text, score of the selected entries.
RECURSIVE TempList(_, _, _)
TempList(top_n_idx, comparator, score_list) ==
    IF top_n_idx = <<>> THEN <<>>
    ELSE LET i == Head(top_n_idx)
         IN  << comparator[i].id, comparator[i].text, score_list[i] >> \o
             TempList(Tail(top_n_idx), comparator, score_list)

\* Lines 118-153: one iteration of the loop over the base rows.
MatchRow ==
    /\ pc \in {"constructed", "matching"}
    /\ Len(output_list) < Len(self.base_data)
    /\ LET row == self.base_data[Len(output_list) + 1]
           scored == ScoreLoop(cache, instances, row.text,
                               self.comparator_data, self.metric, <<>>)
       IN  /\ cache' = scored.cache
           /\ IF scored.raised
              THEN /\ pc' = "raised"
                   /\ error' = "NotImplementedError"
                   /\ UNCHANGED output_list
              ELSE /\ pc' = "matching"
                   /\ \E order \in ArgSort(scored.score_list) :
                        output_list' =
                          Append(output_list,
                                 TempList(TopNIdx(order, self.top_n),
                                          self.comparator_data,
                                          scored.score_list))
                   /\ UNCHANGED error
    /\ UNCHANGED <<config, self, result_df, instances, last>>

\* Lines 160-165: three column names for each index of range(top_n).
ColumnList(top_n) == 3 * Max(top_n, 0)

\* Lines 156-169: the Output lists are spread over the match columns.
\* Series.apply(pd.Series) gives a frame with as many columns as the lists
\* are long, and DataFrame.__setitem__ raises ValueError ("Columns must be
\* same length as key") unless that is the number of names in column_list.
CreateResult ==
    /\ pc = "matching"
    /\ Len(output_list) = Len(self.base_data)
    /\ LET width == Len(output_list[1])
           rows == [i \in 1..Len(output_list) |->
                      [id |-> self.base_data[i].id,
                       text |-> self.base_data[i].text,
                       cells |-> output_list[i]]]
       IN  IF width = ColumnList(self.top_n)
           THEN /\ result_df' = [flat |-> TRUE, rows |-> DropDuplicates(rows)]
                /\ pc' = "done"
                /\ UNCHANGED error
           ELSE /\ result_df' = [flat |-> FALSE, rows |-> rows]
                /\ pc' = "raised"
                /\ error' = "ValueError"
    /\ UNCHANGED <<config, self, output_list, cache, instances, last>>

\* --------------------------------------------------------- configurations
TextAb == StrCell(<<"a", "b">>)
TextAbPadded == StrCell(<<" ", "A", "B">>)
TextB == StrCell(<<"b">>)
TextDash == StrCell(<<"-">>)

BaseRows == [id : {1}, text : {TextAb, TextDash}]
ComparatorRows ==
    { [id |-> 10, text |-> TextAb], [id |-> 11, text |-> TextB],
      [id |-> 12, text |-> TextAbPadded] }

\* The sequences over S of a length in lo..hi.
SeqsOf(S, lo, hi) == UNION { [1..n -> S] : n \in lo..hi }

\* ---------------------------------------------------------- specification
\* A matching run: a configuration, the constructor, the loop, the result.
Init ==
    /\ \E b \in SeqsOf(BaseRows, 1, MaxBase),
          c \in SeqsOf(ComparatorRows, 0, MaxComp),
          n \in -1..MaxTopN, m \in Metrics :
            config = [base |-> b, comparator |-> c, top_n |-> n,
                      metric |-> m]
    /\ pc = "new"
    /\ self = NoSelf
    /\ output_list = <<>>
    /\ result_df = [flat |-> FALSE, rows |-> <<>>]
    /\ error = "none"
    /\ cache = <<>>
    /\ instances = 0
    /\ last = NoCall

Next == Construct \/ MatchRow \/ CreateResult

Spec == Init /\ [][Next]_vars

\* The scorer and its cache: instances are constructed and
\* get_fuzzy_distance is called on any of them, with two texts that differ
\* in case and whitespace only against a third, under two supported metric
\* names and an unsupported one.
CacheTexts1 == {TextAb, TextAbPadded}
CacheTexts2 == {TextB}
CacheMetrics == {"lev-partial", "lev-ratio", "unknown-metric"}

CallCached ==
    /\ instances >= 1
    /\ \E obj \in 1..instances, string_1 \in CacheTexts1,
          string_2 \in CacheTexts2, metric \in CacheMetrics :
            Call(obj, string_1, string_2, metric)

InitCache ==
    /\ config = [base |-> <<[id |-> 1, text |-> TextAb]>>,
                 comparator |-> <<[id |-> 10, text |-> TextB]>>,
                 top_n |-> 1, metric |-> "jaro-winkler"]
    /\ pc = "new"
    /\ self = NoSelf
    /\ output_list = <<>>
    /\ result_df = [flat |-> FALSE, rows |-> <<>>]
    /\ error = "none"
    /\ cache = <<>>
    /\ instances = 0
    /\ last = NoCall

NextCache == Construct \/ CallCached

SpecCache == InitCache /\ [][NextCache]_vars

\* The scorer as a function: the arguments of one call are drawn from the
\* texts below and the metric names (the default of the parameter among
\* them), and the call is made on a fresh instance.
ScoreTexts ==
    { StrCell(<<>>), StrCell(<<" ", "\t">>),
      TextDash, StrCell(<<" ", "-", " ">>),
      StrCell(<<"n", "a", "n">>), StrCell(<<" ", "N", "a", "N">>), NaNCell,
      StrCell(<<"U", "n", "k", "n", "o", "w", "n", " ">>),
      StrCell(<<"n", "a">>), TextAb, TextAbPadded, TextB }

InitScore ==
    /\ config = [base |-> <<[id |-> 1, text |-> TextAb]>>,
                 comparator |-> <<[id |-> 10, text |-> TextB]>>,
                 top_n |-> 1, metric |-> "jaro-winkler"]
    /\ pc = "constructed"
    /\ self = [base_data |-> config.base,
               comparator_data |-> config.comparator,
               top_n |-> config.top_n, metric |-> config.metric]
    /\ output_list = <<>>
    /\ result_df = [flat |-> FALSE, rows |-> <<>>]
    /\ error = "none"
    /\ cache = <<>>
    /\ instances = 1
    /\ \E string_1 \in ScoreTexts, string_2 \in ScoreTexts,
          metric \in Metrics \cup {DefaultMetric} :
            last = [NoCall EXCEPT !.op = "pending", !.self = 1,
                                  !.string_1 = string_1,
                                  !.string_2 = string_2,
                                  !.metric = metric]

ApplyScore ==
    /\ last.op = "pending"
    /\ Call(last.self, last.string_1, last.string_2, last.metric)

NextScore == ApplyScore

SpecScore == InitScore /\ [][NextScore]_vars

\* ----------------------------------------------------------------- claims
\* The MatchResult of base row r: the triples of output_list[r].
NumMatches(r) == Len(output_list[r]) \div 3
MatchId(r, a) == output_list[r][3 * a - 2]
MatchText(r, a) == output_list[r][3 * a - 1]
MatchScore(r, a) == output_list[r][3 * a]

\* The place in the comparator frame of the a-th match of base row r (the
\* rows of the frame are distinct after drop_duplicates).
MatchPos(r, a) ==
    CHOOSE i \in 1..Len(self.comparator_data) :
        self.comparator_data[i] = [id |-> MatchId(r, a),
                                   text |-> MatchText(r, a)]

\* The score of base row r against comparator row i, computed afresh.
FreshScore(r, i) ==
    GetFuzzyDistanceBody(self.base_data[r].text,
                         self.comparator_data[i].text, self.metric).value

\* Whether comparator row i is among the matches of base row r.
Selected(r, i) == \E a \in 1..NumMatches(r) : MatchPos(r, a) = i

\* C1: in every MatchResult, of two entries with equal score the one that
\* is earlier in the comparator frame is earlier in the result.
C1_TiesKeepInputOrder ==
    \A r \in 1..Len(output_list) :
        \A a, b \in 1..NumMatches(r) :
            (MatchScore(r, a) = MatchScore(r, b)
                /\ MatchPos(r, a) < MatchPos(r, b)) => a < b

\* C2: for top_n >= 1 every MatchResult lists its scores in non-increasing
\* order, each entry carries the score of its comparator row, and no
\* comparator row left out scores strictly higher than a row in the result.
C2_TopScoresDescending ==
    self.top_n >= 1 =>
        \A r \in 1..Len(output_list) :
            /\ \A a \in 1..NumMatches(r) :
                 MatchScore(r, a) = FreshScore(r, MatchPos(r, a))
            /\ \A a, b \in 1..NumMatches(r) :
                 a < b => MatchScore(r, a) >= MatchScore(r, b)
            /\ \A i \in 1..Len(self.comparator_data) :
                 ~Selected(r, i) =>
                     \A a \in 1..NumMatches(r) :
                         FreshScore(r, i) <= MatchScore(r, a)

\* C2, its case: fewer matches than comparator rows were selected and a
\* row left out scores strictly lower than the last match.
C2_Witness ==
    /\ self.top_n >= 1
    /\ Len(output_list) >= 1
    /\ NumMatches(1) = self.top_n
    /\ NumMatches(1) < Len(self.comparator_data)
    /\ \E i \in 1..Len(self.comparator_data) :
         /\ ~Selected(1, i)
         /\ FreshScore(1, i) < MatchScore(1, NumMatches(1))

\* C3: for top_n = N >= 1 and a comparator frame of k rows every MatchResult
\* holds exactly min(N, k) triples, in output_list and in the frame built
\* from it.
C3_LengthIsMinOfTopNAndSize ==
    self.top_n >= 1 =>
        /\ \A r \in 1..Len(output_list) :
             Len(output_list[r]) =
                 3 * Min(self.top_n, Len(self.comparator_data))
        /\ \A r \in 1..Len(result_df.rows) :
             Len(result_df.rows[r].cells) =
                 3 * Min(self.top_n, Len(self.comparator_data))

\* C3, its case: a result shorter than top_n, the comparator frame having
\* fewer rows.
C3_Witness ==
    /\ self.top_n >= 2
    /\ Len(self.comparator_data) = 1
    /\ Len(output_list) >= 1
    /\ NumMatches(1) = 1

\* Whether the cell x is a sentinel once trimmed and uppercased.
SentinelEquivalent(x) ==
    Upper(Strip(Str(x))) \in
        { <<"U", "N", "K", "N", "O", "W", "N">>, <<"-">>,
          <<"N", "A", "N">>, <<>> }

\* C4: under every metric name a call of get_fuzzy_distance with a
\* sentinel-equivalent argument on either side returns exactly 0.0.
C4_SentinelScoresZero ==
    (last.op = "get_fuzzy_distance"
        /\ (SentinelEquivalent(last.string_1)
              \/ SentinelEquivalent(last.string_2)))
    => last.result = Returned(0)

\* C4, its case: the float NaN scored against a text that is no sentinel,
\* under a metric name the scorer does not support.
C4_Witness ==
    /\ last.op = "get_fuzzy_distance"
    /\ last.string_1 = TextAb
    /\ last.string_2 = NaNCell
    /\ last.metric \notin SupportedMetrics
    /\ last.result = Returned(0)

\* C5: a configuration with an unsupported metric name never gets past the
\* constructor: no instance exists, nothing is scored, no run starts.
C5_UnsupportedMetricFailsAtConstruction ==
    config.metric \notin SupportedMetrics => (pc = "new" /\ instances = 0)

\* C6: a configuration with top_n <= 0 never gets past the constructor: no
\* instance exists and no matching run executes.
C6_InvalidTopNFailsAtConstruction ==
    config.top_n <= 0 => (instances = 0 /\ pc = "new")

\* C7: with a valid configuration (top_n >= 1, a supported metric) and an
\* empty comparator frame the run raises nothing and every MatchResult is
\* empty.
C7_EmptyComparatorCompletes ==
    (instances >= 1 /\ self.comparator_data = <<>> /\ self.top_n >= 1
        /\ self.metric \in SupportedMetrics)
    => /\ pc # "raised"
       /\ error = "none"
       /\ \A r \in 1..Len(output_list) : output_list[r] = <<>>

\* C8: every entry of the score cache holds what the uncached body computes
\* for the arguments of its key, and a call answered from the cache returned
\* what the body computes for its arguments.
C8_CacheHoldsComputedScores ==
    /\ \A i \in 1..Len(cache) :
         cache[i].result =
             GetFuzzyDistanceBody(cache[i].key.string_1,
                                  cache[i].key.string_2, cache[i].key.metric)
    /\ (last.op = "get_fuzzy_distance" /\ last.hit) =>
         last.result =
             GetFuzzyDistanceBody(last.string_1, last.string_2, last.metric)

\* C8, its case: the second instance was answered from a full cache.
C8_Witness ==
    /\ last.op = "get_fuzzy_distance"
    /\ last.hit
    /\ last.self = 2
    /\ last.result.value > 0
    /\ Len(cache) = CacheBound

\* C9: right after a constructor call the score cache is empty.
C9_ConstructionEmptiesCache ==
    last.op = "__init__" => cache = <<>>

\* C9, its case: a second instance was constructed while the cache held
\* scores of the first.
C9_Witness ==
    /\ last.op = "__init__"
    /\ last.self = 2
    /\ last.before > 0
    /\ cache = <<>>

\* The key of a call as lru_cache sees it: the arguments as passed.
RawKeyOf(c) ==
    [self |-> c.self, string_1 |-> c.string_1, string_2 |-> c.string_2,
     metric |-> c.metric]

\* Whether the cache entry e is of the instance and the metric of the call
\* c, with strings that normalize to those of c.
SameNormalized(e, c) ==
    /\ e.key.self = c.self
    /\ e.key.metric = c.metric
    /\ Normalize(e.key.string_1) = Normalize(c.string_1)
    /\ Normalize(e.key.string_2) = Normalize(c.string_2)

====
